---- MODULE Spec2Model ----
(***************************************************************************)
(* Vinyl Scrobbler v2: the duration parser (parseDuration) and the         *)
(* scrobble loop (scrobble) of the command-line scrobbler.                 *)
(*                                                                         *)
(* A raw duration is a JavaScript string, modelled as a sequence of        *)
(* one-character strings over decimal digits, ':' and the letter "x"       *)
(* (standing for any character that makes a segment non-numeric).          *)
(* Numeric literals other than plain decimal digits (signs, fractions,     *)
(* exponents, "Infinity", surrounding blanks) are outside the alphabet.    *)
(***************************************************************************)
EXTENDS Integers, Sequences, FiniteSets, TLC

\* ------------------------------------------------------------------ bounds
MaxTracks == 3
MaxRawLen == 7

\* --------------------------------------------------------------- constants
DEFAULT_TRACK_DURATION == 180
MIN_SCROBBLE_DURATION == 30

\* ------------------------------------------------------------ JS builtins
\* NaN, the result of Number() on a non-numeric segment.
NaN == -1

isNaN(n) == n = NaN

Digits == {"0", "1", "2", "3", "4", "5", "6", "7", "8", "9"}

DigitVal(c) ==
  CASE c = "0" -> 0 [] c = "1" -> 1 [] c = "2" -> 2 [] c = "3" -> 3
    [] c = "4" -> 4 [] c = "5" -> 5 [] c = "6" -> 6 [] c = "7" -> 7
    [] c = "8" -> 8 [] c = "9" -> 9

\* The value `undefined` of a missing duration field.
Absent == <<"undefined">>

\* String.prototype.split(':'): the segments between the colons; a string
\* without a colon is one segment, and an empty segment is kept.
RECURSIVE split(_)
split(s) ==
  IF \A k \in 1..Len(s) : s[k] # ":"
  THEN <<s>>
  ELSE LET k == CHOOSE j \in 1..Len(s) :
                  s[j] = ":" /\ \A m \in 1..(j - 1) : s[m] # ":"
       IN  <<SubSeq(s, 1, k - 1)>> \o split(SubSeq(s, k + 1, Len(s)))

\* Number(segment): the empty string is 0, a string of decimal digits is
\* its decimal value (leading zeros allowed), anything else is NaN.
RECURSIVE DecimalValue(_)
DecimalValue(seg) ==
  IF seg = <<>> THEN 0
  ELSE 10 * DecimalValue(SubSeq(seg, 1, Len(seg) - 1)) + DigitVal(seg[Len(seg)])

Number(seg) ==
  IF \A k \in 1..Len(seg) : seg[k] \in Digits
  THEN DecimalValue(seg)
  ELSE NaN

\* Array.prototype.map(Number)
MapNumber(segs) == [k \in 1..Len(segs) |-> Number(segs[k])]

NotNaN(n) == ~isNaN(n)

\* ---------------------------------------------------------- parseDuration
\* parts = duration.split(':').map(Number).filter(n => !isNaN(n))
DurationParts(duration) == SelectSeq(MapNumber(split(duration)), NotNaN)

\* Variant: the weights of a two-segment input are exchanged.
parseDurationSwapped(duration) ==
  IF duration = Absent \/ duration = <<>>
  THEN DEFAULT_TRACK_DURATION
  ELSE LET parts == DurationParts(duration)
       IN  IF Len(parts) = 3
           THEN parts[1] * 3600 + parts[2] * 60 + parts[3]
           ELSE IF Len(parts) = 2
                THEN parts[1] + parts[2] * 60
                ELSE DEFAULT_TRACK_DURATION

\* Variant: a single segment is taken as a number of seconds.
parseDurationSeconds(duration) ==
  IF duration = Absent \/ duration = <<>>
  THEN DEFAULT_TRACK_DURATION
  ELSE LET parts == DurationParts(duration)
       IN  IF Len(parts) = 3
           THEN parts[1] * 3600 + parts[2] * 60 + parts[3]
           ELSE IF Len(parts) = 2
                THEN parts[1] * 60 + parts[2]
                ELSE IF Len(parts) = 1
                     THEN parts[1]
                     ELSE DEFAULT_TRACK_DURATION

parseDuration(duration) ==
  IF duration = Absent \/ duration = <<>>
  THEN DEFAULT_TRACK_DURATION
  ELSE LET parts == DurationParts(duration)
       IN  IF Len(parts) = 3
           THEN parts[1] * 3600 + parts[2] * 60 + parts[3]
           ELSE IF Len(parts) = 2
                THEN parts[1] * 60 + parts[2]
                ELSE DEFAULT_TRACK_DURATION


\* ---------------------------------------------------------------- scrobble
\* JavaScript a || b on numbers: b when a is 0 (or NaN), else a.
OrElse(a, b) == IF a = 0 \/ isNaN(a) THEN b ELSE a

Max(a, b) == IF a >= b THEN a ELSE b

\* tracks.reduce((sum, track) =>
\*     sum + (parseDuration(track.duration) || DEFAULT_TRACK_DURATION), 0)
RECURSIVE TotalDuration(_)
TotalDuration(ts) ==
  IF ts = <<>> THEN 0
  ELSE TotalDuration(SubSeq(ts, 1, Len(ts) - 1))
       + OrElse(parseDuration(ts[Len(ts)].duration), DEFAULT_TRACK_DURATION)

\* Variant: the duration is normalised as in the total (|| default).
ScrobbleDurationOrDefault(track) ==
  OrElse(parseDuration(track.duration), DEFAULT_TRACK_DURATION)

\* Variant: the 30-second minimum is not applied.
ScrobbleDurationNoFloor(track) == parseDuration(track.duration)

\* const duration = Math.max(parseDuration(tracks[i].duration), MIN_SCROBBLE_DURATION)
ScrobbleDuration(track) ==
  Max(parseDuration(track.duration), MIN_SCROBBLE_DURATION)

\* Variant: the timestamp is counted back from now by the time consumed so far.
ScrobbleTimestampFromNow(n, total, cumulative) == n - cumulative

\* const timestamp = now - (totalDuration - cumulativeTime)
ScrobbleTimestamp(n, total, cumulative) == n - (total - cumulative)

\* ------------------------------------------------------------------ inputs
\* Characters of the raw durations enumerated exhaustively.
Chars == {"0", "3", ":", "x"}

RawStrings == UNION {[1..n -> Chars] : n \in 0..MaxRawLen}

\* The durations quoted by the documentation and the specification.
ExampleRaws ==
  { <<"0", "7", ":", "4", "2">>,
    <<"1", ":", "0", "2", ":", "0", "3">>,
    <<"4", ":", "0", "0">>,
    <<"4", "5">>,
    <<"g", "a", "r", "b", "a", "g", "e">> }

RawInputs == RawStrings \cup ExampleRaws \cup {Absent}

\* The `duration` fields a Discogs tracklist entry carries in the scrobble
\* runs: missing, "4:00", "0:30", "0:10", "0:00" and a non-numeric text.
DiscogsDurations ==
  { Absent,
    <<"4", ":", "0", "0">>,
    <<"0", ":", "3", "0">>,
    <<"0", ":", "1", "0">>,
    <<"0", ":", "0", "0">>,
    <<"x">> }

\* getDiscogsInfo: title and duration of the track at position k
\* (duration: t.duration || ''); the title is the track's position.
DiscogsTrack(k, d) ==
  [title |-> k, duration |-> IF d = Absent THEN <<>> ELSE d]

TrackLists ==
  UNION { { [k \in 1..n |-> DiscogsTrack(k, ds[k])] : ds \in [1..n -> DiscogsDurations] }
          : n \in 0..MaxTracks }

\* Math.floor(Date.now() / 1000) at the call of scrobble.
Nows == {1000, 10000}

\* ------------------------------------------------------------------- state
VARIABLES
  tracks,          \* the track list passed to scrobble
  dryRun,          \* options.dryRun
  pc,              \* position of scrobble: start, loop, dryDelay, post, delay, done
  now,             \* const now
  totalDuration,   \* const totalDuration
  cumulativeTime,  \* let cumulativeTime
  i,               \* loop index (0-based)
  duration,        \* const duration of the current iteration
  timestamp,       \* const timestamp of the current iteration
  assigned,        \* history: [timestamp, duration] computed per iteration
  calls,           \* history: params of every lastfm.post issued
  outcomes,        \* history: result of every completed lastfm.post
  progress,        \* history: updateProgress(i + 1, ...) calls
  errors,          \* history: titles printed by console.error
  raw,             \* argument of a parseDuration call
  ppc,             \* position of the parseDuration call: idle, call, returned
  parsed,          \* value returned by the parseDuration call
  mpc,             \* position of main: start, fetch, confirm, auth, scrobble, log, report, end, exit
  answer,          \* const confirm, the answer to the confirmation prompt
  sessionKey,      \* const sessionKey ("" before authentication)
  authRequests,    \* history: number of auth.getMobileSession posts issued
  logFile,         \* the day's log file: [kind, data]
  logged,          \* history: outcome of every logScrobbleSession call
  printed,         \* history: kinds of the messages printed by main and its callees
  exited,          \* <<>> while running, <<code>> once the process has ended
  sigCall,         \* the signed Last.fm call being built: mobile, token, scrobble
  sigParams,       \* the parameters sent with the call, api_sig excluded
  sigSecret,       \* LASTFM_API_SECRET
  sigBase,         \* the string handed to the MD5 hash, as a sequence of pieces
  spc              \* position of the signing: idle, build, signed

vars == <<tracks, dryRun, pc, now, totalDuration, cumulativeTime, i, duration,
          timestamp, assigned, calls, outcomes, progress, errors,
          raw, ppc, parsed,
          mpc, answer, sessionKey, authRequests, logFile, logged, printed, exited,
          sigCall, sigParams, sigSecret, sigBase, spc>>

scrobbleVars == <<tracks, dryRun, pc, now, totalDuration, cumulativeTime, i,
                  duration, timestamp, assigned, calls, outcomes, progress,
                  errors>>

parseVars == <<raw, ppc, parsed>>

mainVars == <<mpc, answer, sessionKey, authRequests, logFile, logged, printed, exited>>

signVars == <<sigCall, sigParams, sigSecret, sigBase, spc>>

\* The log file does not exist.
NoFile == [kind |-> "absent", data |-> <<>>]

\* No signed call is being built.
SignIdle ==
  /\ sigCall = "none"
  /\ sigParams = <<>>
  /\ sigSecret = ""
  /\ sigBase = <<>>
  /\ spc = "idle"

\* main has confirmed and authenticated and is inside its call of scrobble.
MainInScrobble ==
  /\ mpc = "scrobble"
  /\ answer = "y"
  /\ sessionKey = "sk1"
  /\ authRequests = 1
  /\ logFile = NoFile
  /\ logged = <<>>
  /\ printed = <<>>
  /\ exited = <<>>

\* main is not running.
MainIdle ==
  /\ mpc = "idle"
  /\ answer = ""
  /\ sessionKey = ""
  /\ authRequests = 0
  /\ logFile = NoFile
  /\ logged = <<>>
  /\ printed = <<>>
  /\ exited = <<>>

\* ----------------------------------------------------------- scrobble run
Init ==
  /\ tracks \in TrackLists
  /\ dryRun \in BOOLEAN
  /\ pc = "start"
  /\ now = 0
  /\ totalDuration = 0
  /\ cumulativeTime = 0
  /\ i = 0
  /\ duration = 0
  /\ timestamp = 0
  /\ assigned = <<>>
  /\ calls = <<>>
  /\ outcomes = <<>>
  /\ progress = <<>>
  /\ errors = <<>>
  /\ raw = <<>>
  /\ ppc = "idle"
  /\ parsed = 0
  /\ MainInScrobble
  /\ SignIdle

\* Variant: reduce is called without an initial value and throws a TypeError
\* on an empty track list.
ScrobbleStartNoInitial ==
  /\ pc = "start"
  /\ \E n \in Nows : now' = n
  /\ cumulativeTime' = 0
  /\ totalDuration' = TotalDuration(tracks)
  /\ i' = 0
  /\ pc' = IF tracks = <<>> THEN "threw" ELSE "loop"
  /\ UNCHANGED <<tracks, dryRun, duration, timestamp, assigned, calls,
                 outcomes, progress, errors>>
  /\ UNCHANGED parseVars
  /\ UNCHANGED <<mainVars, signVars>>

\* Lines 218-224: now, cumulativeTime and totalDuration are fixed before the loop.
ScrobbleStart ==
  /\ pc = "start"
  /\ \E n \in Nows : now' = n
  /\ cumulativeTime' = 0
  /\ totalDuration' = TotalDuration(tracks)
  /\ i' = 0
  /\ pc' = "loop"
  /\ UNCHANGED <<tracks, dryRun, duration, timestamp, assigned, calls,
                 outcomes, progress, errors>>
  /\ UNCHANGED parseVars
  /\ UNCHANGED <<mainVars, signVars>>

\* Lines 226-236, dry run: duration and timestamp are computed, the track is
\* printed and the loop waits 300 ms.
DryIterate ==
  /\ pc = "loop"
  /\ i < Len(tracks)
  /\ dryRun
  /\ duration' = ScrobbleDuration(tracks[i + 1])
  /\ timestamp' = ScrobbleTimestamp(now, totalDuration, cumulativeTime)
  /\ assigned' = Append(assigned, [timestamp |-> timestamp', duration |-> duration'])
  /\ pc' = "dryDelay"
  /\ UNCHANGED <<tracks, dryRun, now, totalDuration, cumulativeTime, i, calls,
                 outcomes, progress, errors>>
  /\ UNCHANGED parseVars
  /\ UNCHANGED <<mainVars, signVars>>

\* Variant: the dry-run branch continues without advancing cumulativeTime.
DryContinueNoAdvance ==
  /\ pc = "dryDelay"
  /\ i' = i + 1
  /\ pc' = "loop"
  /\ UNCHANGED <<tracks, dryRun, now, totalDuration, cumulativeTime, duration,
                 timestamp, assigned, calls, outcomes, progress, errors>>
  /\ UNCHANGED parseVars
  /\ UNCHANGED <<mainVars, signVars>>

\* Lines 237-238: cumulativeTime += duration; continue.
DryContinue ==
  /\ pc = "dryDelay"
  /\ cumulativeTime' = cumulativeTime + duration
  /\ i' = i + 1
  /\ pc' = "loop"
  /\ UNCHANGED <<tracks, dryRun, now, totalDuration, duration, timestamp,
                 assigned, calls, outcomes, progress, errors>>
  /\ UNCHANGED parseVars
  /\ UNCHANGED <<mainVars, signVars>>

\* Lines 226-258, live run: duration and timestamp are computed, the params
\* are built and lastfm.post is issued.
PostIssue ==
  /\ pc = "loop"
  /\ i < Len(tracks)
  /\ ~dryRun
  /\ duration' = ScrobbleDuration(tracks[i + 1])
  /\ timestamp' = ScrobbleTimestamp(now, totalDuration, cumulativeTime)
  /\ assigned' = Append(assigned, [timestamp |-> timestamp', duration |-> duration'])
  /\ calls' = Append(calls, [track |-> tracks[i + 1].title,
                             timestamp |-> timestamp',
                             duration |-> duration'])
  /\ pc' = "post"
  /\ UNCHANGED <<tracks, dryRun, now, totalDuration, cumulativeTime, i,
                 outcomes, progress, errors>>
  /\ UNCHANGED parseVars
  /\ UNCHANGED <<mainVars, signVars>>

\* Variant: the next iteration starts without the inter-submission delay.
PostOkNoDelay ==
  /\ pc = "post"
  /\ outcomes' = Append(outcomes, "ok")
  /\ progress' = Append(progress, i + 1)
  /\ cumulativeTime' = cumulativeTime + duration
  /\ i' = i + 1
  /\ pc' = "loop"
  /\ UNCHANGED <<tracks, dryRun, now, totalDuration, duration, timestamp,
                 assigned, calls, errors>>
  /\ UNCHANGED parseVars
  /\ UNCHANGED <<mainVars, signVars>>

\* Variant: cumulativeTime advances by the parsed, not the submitted, duration.
PostOkAdvanceParsed ==
  /\ pc = "post"
  /\ outcomes' = Append(outcomes, "ok")
  /\ progress' = Append(progress, i + 1)
  /\ cumulativeTime' = cumulativeTime + parseDuration(tracks[i + 1].duration)
  /\ pc' = "delay"
  /\ UNCHANGED <<tracks, dryRun, now, totalDuration, i, duration, timestamp,
                 assigned, calls, errors>>
  /\ UNCHANGED parseVars
  /\ UNCHANGED <<mainVars, signVars>>

\* Lines 258-259, 264: the post resolves; updateProgress; cumulativeTime += duration.
PostOk ==
  /\ pc = "post"
  /\ outcomes' = Append(outcomes, "ok")
  /\ progress' = Append(progress, i + 1)
  /\ cumulativeTime' = cumulativeTime + duration
  /\ pc' = "delay"
  /\ UNCHANGED <<tracks, dryRun, now, totalDuration, i, duration, timestamp,
                 assigned, calls, errors>>
  /\ UNCHANGED parseVars
  /\ UNCHANGED <<mainVars, signVars>>

\* Variant: cumulativeTime is advanced inside the try block only.
PostFailNoAdvance ==
  /\ pc = "post"
  /\ outcomes' = Append(outcomes, "error")
  /\ errors' = Append(errors, tracks[i + 1].title)
  /\ pc' = "delay"
  /\ UNCHANGED <<tracks, dryRun, now, totalDuration, cumulativeTime, i,
                 duration, timestamp, assigned, calls, progress>>
  /\ UNCHANGED parseVars
  /\ UNCHANGED <<mainVars, signVars>>

\* Variant: the rejection is reported and ends the loop.
PostFailAbort ==
  /\ pc = "post"
  /\ outcomes' = Append(outcomes, "error")
  /\ errors' = Append(errors, tracks[i + 1].title)
  /\ pc' = "done"
  /\ UNCHANGED <<tracks, dryRun, now, totalDuration, cumulativeTime, i,
                 duration, timestamp, assigned, calls, progress>>
  /\ UNCHANGED parseVars
  /\ UNCHANGED <<mainVars, signVars>>

\* Lines 260-264: the post rejects; the failure is printed with the track
\* title; cumulativeTime += duration.
PostFail ==
  /\ pc = "post"
  /\ outcomes' = Append(outcomes, "error")
  /\ errors' = Append(errors, tracks[i + 1].title)
  /\ cumulativeTime' = cumulativeTime + duration
  /\ pc' = "delay"
  /\ UNCHANGED <<tracks, dryRun, now, totalDuration, i, duration, timestamp,
                 assigned, calls, progress>>
  /\ UNCHANGED parseVars
  /\ UNCHANGED <<mainVars, signVars>>

\* Lines 265, 226: the delay elapses; i++.
DelayElapsed ==
  /\ pc = "delay"
  /\ i' = i + 1
  /\ pc' = "loop"
  /\ UNCHANGED <<tracks, dryRun, now, totalDuration, cumulativeTime, duration,
                 timestamp, assigned, calls, outcomes, progress, errors>>
  /\ UNCHANGED parseVars
  /\ UNCHANGED <<mainVars, signVars>>

\* Line 226: i < tracks.length is false; scrobble returns.
LoopExit ==
  /\ pc = "loop"
  /\ i >= Len(tracks)
  /\ pc' = "done"
  /\ UNCHANGED <<tracks, dryRun, now, totalDuration, cumulativeTime, i,
                 duration, timestamp, assigned, calls, outcomes, progress,
                 errors>>
  /\ UNCHANGED parseVars
  /\ UNCHANGED <<mainVars, signVars>>

Next ==
  \/ ScrobbleStart
  \/ DryIterate
  \/ DryContinue
  \/ PostIssue
  \/ PostOk
  \/ PostFail
  \/ DelayElapsed
  \/ LoopExit

Spec == Init /\ [][Next]_vars

\* ------------------------------------------------- parseDuration in isolation
InitParse ==
  /\ raw \in RawInputs
  /\ ppc = "call"
  /\ parsed = 0
  /\ tracks = <<>>
  /\ dryRun = FALSE
  /\ pc = "idle"
  /\ now = 0
  /\ totalDuration = 0
  /\ cumulativeTime = 0
  /\ i = 0
  /\ duration = 0
  /\ timestamp = 0
  /\ assigned = <<>>
  /\ calls = <<>>
  /\ outcomes = <<>>
  /\ progress = <<>>
  /\ errors = <<>>
  /\ MainIdle
  /\ SignIdle

ParseCall ==
  /\ ppc = "call"
  /\ parsed' = parseDuration(raw)
  /\ ppc' = "returned"
  /\ UNCHANGED raw
  /\ UNCHANGED scrobbleVars
  /\ UNCHANGED <<mainVars, signVars>>

NextParse == ParseCall

SpecParse == InitParse /\ [][NextParse]_vars


\* -------------------------------------------------------------------- main
\* The answers given to the confirmation prompt.
Answers == {"y", "Y", "n", "N", "", "yes"}

\* String.prototype.toLowerCase on the answers.
toLowerCase(a) == CASE a = "Y" -> "y" [] a = "N" -> "n" [] OTHER -> a

\* Variant: everything but an explicit "n" confirms.
ConfirmedUnlessNo(a) == toLowerCase(a) # "n"

\* Line 355: confirm.toLowerCase() !== 'y' cancels.
Confirmed(a) == toLowerCase(a) = "y"

\* A record written by an earlier run of the same day.
OldEntry ==
  [timestamp |-> "earlier", artist |-> "artist", album |-> "album",
   url |-> "fullUrl",
   tracks |-> <<[position |-> 1, title |-> 1, duration |-> <<"4", ":", "0", "0">>]>>]

\* Lines 273-283: the record of this run (duration: t.duration || '00:00').
LogEntry(ts) ==
  [timestamp |-> "now", artist |-> "artist", album |-> "album",
   url |-> "fullUrl",
   tracks |-> [k \in 1..Len(ts) |->
                 [position |-> k,
                  title    |-> ts[k].title,
                  duration |-> IF ts[k].duration = <<>>
                               THEN <<"0", "0", ":", "0", "0">>
                               ELSE ts[k].duration]]]

\* The log file before the run: missing, a JSON array of earlier records, or
\* content that JSON.parse rejects.
InitialLogFiles ==
  { NoFile,
    [kind |-> "array", data |-> <<OldEntry>>],
    [kind |-> "corrupt", data |-> <<>>] }

InitMain ==
  /\ dryRun \in BOOLEAN
  /\ logFile \in InitialLogFiles
  /\ mpc = "start"
  /\ answer = ""
  /\ sessionKey = ""
  /\ authRequests = 0
  /\ logged = <<>>
  /\ printed = <<>>
  /\ exited = <<>>
  /\ tracks = <<>>
  /\ pc = "idle"
  /\ now = 0
  /\ totalDuration = 0
  /\ cumulativeTime = 0
  /\ i = 0
  /\ duration = 0
  /\ timestamp = 0
  /\ assigned = <<>>
  /\ calls = <<>>
  /\ outcomes = <<>>
  /\ progress = <<>>
  /\ errors = <<>>
  /\ raw = <<>>
  /\ ppc = "idle"
  /\ parsed = 0
  /\ SignIdle

\* Lines 321-339: the release URL is read and its id extracted; without a
\* digit the match is null, the TypeError reaches main's catch and the
\* process ends normally. Otherwise the release is requested.
MainStart ==
  /\ mpc = "start"
  /\ \E valid \in BOOLEAN :
       IF valid
       THEN /\ mpc' = "fetch"
            /\ UNCHANGED <<printed, exited>>
       ELSE /\ mpc' = "end"
            /\ printed' = Append(printed, "fatal")
            /\ exited' = <<0>>
  /\ UNCHANGED <<answer, sessionKey, authRequests, logFile, logged>>
  /\ UNCHANGED <<scrobbleVars, parseVars, signVars>>

\* Lines 163-187, 342-344: getDiscogsInfo returns the tracks; the artist
\* prompt is shown.
FetchOk ==
  /\ mpc = "fetch"
  /\ \E tl \in TrackLists : tracks' = tl
  /\ mpc' = "artist"
  /\ UNCHANGED <<answer, sessionKey, authRequests, logFile, logged, printed, exited>>
  /\ UNCHANGED <<dryRun, pc, now, totalDuration, cumulativeTime, i, duration,
                 timestamp, assigned, calls, outcomes, progress, errors>>
  /\ UNCHANGED <<parseVars, signVars>>

\* Lines 188-191: getDiscogsInfo fails; process.exit(1).
FetchFail ==
  /\ mpc = "fetch"
  /\ printed' = Append(printed, "discogs error")
  /\ exited' = <<1>>
  /\ mpc' = "exit"
  /\ UNCHANGED <<answer, sessionKey, authRequests, logFile, logged>>
  /\ UNCHANGED <<scrobbleVars, parseVars, signVars>>

\* Lines 344-354: the artist prompt is answered, the track list is printed
\* and the confirmation prompt is shown.
ArtistAnswer ==
  /\ mpc = "artist"
  /\ mpc' = "confirm"
  /\ UNCHANGED <<answer, sessionKey, authRequests, logFile, logged, printed, exited>>
  /\ UNCHANGED <<scrobbleVars, parseVars, signVars>>

\* Lines 354-362, 195-208: the confirmation is answered; anything but y/Y
\* cancels and main returns; otherwise authenticateLastFM posts
\* auth.getMobileSession.
Confirm ==
  /\ mpc = "confirm"
  /\ \E a \in Answers :
       /\ answer' = a
       /\ IF Confirmed(a)
          THEN /\ authRequests' = authRequests + 1
               /\ mpc' = "auth"
               /\ UNCHANGED <<printed, exited>>
          ELSE /\ printed' = Append(printed, "cancelled")
               /\ mpc' = "end"
               /\ exited' = <<0>>
               /\ UNCHANGED authRequests
  /\ UNCHANGED <<sessionKey, logFile, logged>>
  /\ UNCHANGED <<scrobbleVars, parseVars, signVars>>

\* Lines 208-210, 362-366: the session key is returned and scrobble is called.
AuthOk ==
  /\ mpc = "auth"
  /\ sessionKey' = "sk1"
  /\ mpc' = "scrobble"
  /\ pc' = "start"
  /\ UNCHANGED <<answer, authRequests, logFile, logged, printed, exited>>
  /\ UNCHANGED <<tracks, dryRun, now, totalDuration, cumulativeTime, i,
                 duration, timestamp, assigned, calls, outcomes, progress, errors>>
  /\ UNCHANGED <<parseVars, signVars>>

\* Variant: the failure is printed and undefined is returned to main.
AuthFailContinue ==
  /\ mpc = "auth"
  /\ printed' = Append(printed, "auth failed")
  /\ mpc' = "scrobble"
  /\ pc' = "start"
  /\ UNCHANGED <<answer, sessionKey, authRequests, logFile, logged, exited>>
  /\ UNCHANGED <<tracks, dryRun, now, totalDuration, cumulativeTime, i,
                 duration, timestamp, assigned, calls, outcomes, progress, errors>>
  /\ UNCHANGED <<parseVars, signVars>>

\* Lines 208-214: the post fails or the response carries an error;
\* process.exit(1).
AuthFail ==
  /\ mpc = "auth"
  /\ printed' = Append(printed, "auth failed")
  /\ exited' = <<1>>
  /\ mpc' = "exit"
  /\ UNCHANGED <<answer, sessionKey, authRequests, logFile, logged>>
  /\ UNCHANGED <<scrobbleVars, parseVars, signVars>>

\* Variant: scrobble is not awaited; main goes on once scrobble has been called.
ScrobbleReturnNoAwait ==
  /\ mpc = "scrobble"
  /\ pc # "idle"
  /\ mpc' = IF dryRun THEN "report" ELSE "log"
  /\ UNCHANGED <<answer, sessionKey, authRequests, logFile, logged, printed, exited>>
  /\ UNCHANGED <<scrobbleVars, parseVars, signVars>>

\* Lines 366-375: scrobble has returned; a live run calls logScrobbleSession.
ScrobbleReturn ==
  /\ mpc = "scrobble"
  /\ pc = "done"
  /\ mpc' = IF dryRun THEN "report" ELSE "log"
  /\ UNCHANGED <<answer, sessionKey, authRequests, logFile, logged, printed, exited>>
  /\ UNCHANGED <<scrobbleVars, parseVars, signVars>>

\* Lines 269-297: logScrobbleSession reads the existing array, pushes the
\* record and writes the file.
LogOk ==
  /\ mpc = "log"
  /\ logFile.kind # "corrupt"
  /\ logFile' = [kind |-> "array", data |-> Append(logFile.data, LogEntry(tracks))]
  /\ logged' = Append(logged, "ok")
  /\ printed' = Append(printed, "session logged")
  /\ mpc' = "report"
  /\ UNCHANGED <<answer, sessionKey, authRequests, exited>>
  /\ UNCHANGED <<scrobbleVars, parseVars, signVars>>

\* Variant: the error leaves logScrobbleSession and reaches main's catch.
LogFailThrow ==
  /\ mpc = "log"
  /\ logged' = Append(logged, "error")
  /\ printed' = Append(printed, "fatal")
  /\ mpc' = "end"
  /\ exited' = <<0>>
  /\ UNCHANGED <<answer, sessionKey, authRequests, logFile>>
  /\ UNCHANGED <<scrobbleVars, parseVars, signVars>>

\* The steps of logScrobbleSession that can throw: mkdirSync (no directory
\* yet), readFile, JSON.parse or push (content that is not a JSON array),
\* and writeFile, either when it opens the file or after it has opened it.
LogFailures(file) ==
  IF file.kind = "absent" THEN {"mkdir", "open", "write"}
  ELSE IF file.kind = "corrupt" THEN {"read", "parse"}
  ELSE {"read", "open", "write"}

\* The file after a failure: writeFile opens with flag 'w', which truncates,
\* so a write that fails after the open leaves content that is no JSON
\* array; every other failure happens before the file is touched.
FileAfterFailure(file, cause) ==
  IF cause = "write" THEN [kind |-> "corrupt", data |-> <<>>] ELSE file

\* Lines 285-300: creating the directory, reading, parsing (a corrupt file)
\* or writing fails; the catch prints the error and the function returns.
LogFail ==
  /\ mpc = "log"
  /\ \E cause \in LogFailures(logFile) :
       logFile' = FileAfterFailure(logFile, cause)
  /\ logged' = Append(logged, "error")
  /\ printed' = Append(printed, "log error")
  /\ mpc' = "report"
  /\ UNCHANGED <<answer, sessionKey, authRequests, exited>>
  /\ UNCHANGED <<scrobbleVars, parseVars, signVars>>

\* Lines 377-383: the success report is printed, rl is closed and the
\* process ends.
Report ==
  /\ mpc = "report"
  /\ printed' = Append(printed, "success")
  /\ mpc' = "end"
  /\ exited' = <<0>>
  /\ UNCHANGED <<answer, sessionKey, authRequests, logFile, logged>>
  /\ UNCHANGED <<scrobbleVars, parseVars, signVars>>

NextMain ==
  \/ MainStart
  \/ FetchOk
  \/ FetchFail
  \/ ArtistAnswer
  \/ Confirm
  \/ AuthOk
  \/ AuthFail
  \/ ScrobbleStart
  \/ DryIterate
  \/ DryContinue
  \/ PostIssue
  \/ PostOk
  \/ PostFail
  \/ DelayElapsed
  \/ LoopExit
  \/ ScrobbleReturn
  \/ LogOk
  \/ LogFail
  \/ Report

SpecMain == InitMain /\ [][NextMain]_vars

\* ------------------------------------------------------- signed requests
\* The parameter names of the signed calls in Array.prototype.sort() order
\* (code unit order of the names).
NameOrder ==
  <<"album", "api_key", "artist", "duration", "format", "method", "password",
    "sk", "timestamp", "token", "track", "username">>

\* Object.keys(params).sort()
SortedKeys(params) ==
  LET IsKey(n) == n \in DOMAIN params
  IN  SelectSeq(NameOrder, IsKey)

\* sortedKeys.forEach(key => { sig += `${key}${params[key]}` })
RECURSIVE ConcatPairs(_, _)
ConcatPairs(keys, params) ==
  IF keys = <<>> THEN <<>>
  ELSE <<keys[1], params[keys[1]]>> \o ConcatPairs(Tail(keys), params)

\* generateSignature of the token flow: the string handed to MD5.
generateSignature(params, secret) ==
  Append(ConcatPairs(SortedKeys(params), params), secret)

\* authenticateLastFM of the scrobbler: the template string handed to MD5.
MobileSessionSignature(params, secret) ==
  <<"api_key", params.api_key, "method", params.method,
    "password", params.password, "username", params.username, secret>>

\* scrobble: the template string handed to MD5.
ScrobbleSignature(params, secret) ==
  <<"album", params.album, "api_key", params.api_key, "artist", params.artist,
    "duration", params.duration, "method", params.method, "sk", params.sk,
    "timestamp", params.timestamp, "track", params.track, secret>>

ApiKeys == {"key1", "key2"}
Secrets == {"secret1", "secret2"}

\* The params objects of the three signed calls, before api_sig is added.
MobileSessionParams ==
  { [method |-> "auth.getMobileSession", username |-> u, password |-> pw,
     api_key |-> k, format |-> "json"]
    : u \in {"user1", "user2"}, pw \in {"pw1", "pw2"}, k \in ApiKeys }

TokenSessionParams ==
  { [method |-> "auth.getSession", api_key |-> k, token |-> t, format |-> "json"]
    : k \in ApiKeys, t \in {"token1", "token2"} }

ScrobbleParams ==
  { [method |-> "track.scrobble", artist |-> "artist", track |-> t,
     timestamp |-> ts, album |-> "album", duration |-> d, api_key |-> k,
     sk |-> sk, format |-> "json"]
    : t \in {"I", "II"}, ts \in {"9580", "9760"}, d \in {"180", "240"},
      k \in ApiKeys, sk \in {"sk1", "sk2"} }

InitSign ==
  /\ \/ sigCall = "mobile" /\ sigParams \in MobileSessionParams
     \/ sigCall = "token" /\ sigParams \in TokenSessionParams
     \/ sigCall = "scrobble" /\ sigParams \in ScrobbleParams
  /\ sigSecret \in Secrets
  /\ sigBase = <<>>
  /\ spc = "build"
  /\ raw = <<>>
  /\ ppc = "idle"
  /\ parsed = 0
  /\ tracks = <<>>
  /\ dryRun = FALSE
  /\ pc = "idle"
  /\ now = 0
  /\ totalDuration = 0
  /\ cumulativeTime = 0
  /\ i = 0
  /\ duration = 0
  /\ timestamp = 0
  /\ assigned = <<>>
  /\ calls = <<>>
  /\ outcomes = <<>>
  /\ progress = <<>>
  /\ errors = <<>>
  /\ MainIdle

\* part_001 lines 204-206: api_sig of auth.getMobileSession.
SignMobileSession ==
  /\ spc = "build"
  /\ sigCall = "mobile"
  /\ sigBase' = MobileSessionSignature(sigParams, sigSecret)
  /\ spc' = "signed"
  /\ UNCHANGED <<sigCall, sigParams, sigSecret>>
  /\ UNCHANGED <<scrobbleVars, parseVars, mainVars>>

\* last-fm.auth.js line 71: api_sig of auth.getSession.
SignTokenSession ==
  /\ spc = "build"
  /\ sigCall = "token"
  /\ sigBase' = generateSignature(sigParams, sigSecret)
  /\ spc' = "signed"
  /\ UNCHANGED <<sigCall, sigParams, sigSecret>>
  /\ UNCHANGED <<scrobbleVars, parseVars, mainVars>>

\* part_001 lines 253-255: api_sig of track.scrobble.
SignScrobble ==
  /\ spc = "build"
  /\ sigCall = "scrobble"
  /\ sigBase' = ScrobbleSignature(sigParams, sigSecret)
  /\ spc' = "signed"
  /\ UNCHANGED <<sigCall, sigParams, sigSecret>>
  /\ UNCHANGED <<scrobbleVars, parseVars, mainVars>>

NextSign ==
  \/ SignMobileSession
  \/ SignTokenSession
  \/ SignScrobble

SpecSign == InitSign /\ [][NextSign]_vars

\* ============================================================== properties
\* Sum of the durations submitted for the first k tracks.
RECURSIVE SubmittedSum(_, _)
SubmittedSum(ts, k) ==
  IF k = 0 THEN 0 ELSE SubmittedSum(ts, k - 1) + ScrobbleDuration(ts[k])

\* A segment that is a non-empty string of decimal digits.
IsIntegerSegment(seg) == seg # <<>> /\ \A k \in 1..Len(seg) : seg[k] \in Digits

\* The titles of the calls that ended with an error, in call order.
RECURSIVE FailedTitles(_, _)
FailedTitles(cs, os) ==
  IF os = <<>> THEN <<>>
  ELSE LET n == Len(os)
           rest == FailedTitles(cs, SubSeq(os, 1, n - 1))
       IN  IF os[n] = "error" THEN Append(rest, cs[n].track) ELSE rest

\* C1: the timestamps assigned to the tracks are strictly increasing with
\* the track index, whatever the raw durations are.
C1_StrictlyIncreasing ==
  \A k \in 1..(Len(assigned) - 1) :
    assigned[k].timestamp < assigned[k + 1].timestamp

\* A finished run over three tracks, one of which parses to 0 seconds.
C1_Witness ==
  /\ pc = "done"
  /\ Len(assigned) = 3
  /\ \E k \in 1..Len(tracks) : parseDuration(tracks[k].duration) = 0

\* C2: every timestamp assigned to a track is at most the reference instant
\* now, also for lists with tracks whose parsed duration is 0 or below 30.
C2_AtMostNow ==
  \A k \in 1..Len(assigned) : assigned[k].timestamp <= now

\* C3 (as claimed): the timestamp assigned to the last track of a non-empty
\* list equals now.
C3_LastEqualsNow ==
  (Len(tracks) > 0 /\ Len(assigned) = Len(tracks))
    => assigned[Len(tracks)].timestamp = now

\* C3 (amended): the timestamp assigned to the last track of a non-empty
\* list equals now - (totalDuration - the durations submitted for the earlier
\* tracks); when every track parses to at least 30 seconds this is now minus
\* the last track's own duration.
C3_LastTimestamp ==
  (Len(tracks) > 0 /\ Len(assigned) = Len(tracks))
    => LET n == Len(tracks)
       IN  /\ assigned[n].timestamp
                = now - (TotalDuration(tracks) - SubmittedSum(tracks, n - 1))
           /\ (\A k \in 1..n :
                 parseDuration(tracks[k].duration) >= MIN_SCROBBLE_DURATION)
                => assigned[n].timestamp = now - assigned[n].duration

\* A finished run over two tracks of at least 30 seconds whose last
\* timestamp lies before now.
C3_Witness ==
  /\ pc = "done"
  /\ Len(tracks) = 2
  /\ \A k \in 1..2 : parseDuration(tracks[k].duration) >= MIN_SCROBBLE_DURATION
  /\ assigned[2].timestamp = now - assigned[2].duration
  /\ assigned[2].timestamp < now

\* C4: the timestamp of track k is now - (total - cumulative), where total is
\* the sum over all tracks of the duration after the 30-second floor and
\* cumulative the sum of the floored durations of the earlier tracks.
C4_FlooredTotal ==
  \A k \in 1..Len(assigned) :
    assigned[k].timestamp
      = now - (SubmittedSum(tracks, Len(tracks)) - SubmittedSum(tracks, k - 1))

\* C5: two numeric segments MM:SS give 60*MM + SS and three numeric segments
\* HH:MM:SS give 3600*HH + 60*MM + SS.
C5_NumericSegments ==
  (ppc = "returned" /\ raw # Absent)
    => LET segs == split(raw)
       IN  /\ (Len(segs) = 2 /\ \A k \in 1..2 : IsIntegerSegment(segs[k]))
                => parsed = 60 * DecimalValue(segs[1]) + DecimalValue(segs[2])
           /\ (Len(segs) = 3 /\ \A k \in 1..3 : IsIntegerSegment(segs[k]))
                => parsed = 3600 * DecimalValue(segs[1])
                            + 60 * DecimalValue(segs[2]) + DecimalValue(segs[3])

\* "1:02:03" has been parsed to 3723.
C5_Witness ==
  /\ ppc = "returned"
  /\ raw = <<"1", ":", "0", "2", ":", "0", "3">>
  /\ parsed = 3723

\* C6 (as claimed): a single numeric segment SS gives that number of seconds.
C6_SingleSegmentSeconds ==
  (ppc = "returned" /\ raw # Absent /\ IsIntegerSegment(raw))
    => parsed = DecimalValue(raw)

\* C6 (amended): a single numeric segment SS gives the default 180.
C6_SingleSegmentDefault ==
  (ppc = "returned" /\ raw # Absent /\ IsIntegerSegment(raw))
    => parsed = DEFAULT_TRACK_DURATION

\* "45" has been parsed to 180.
C6_Witness ==
  /\ ppc = "returned"
  /\ raw = <<"4", "5">>
  /\ parsed = DEFAULT_TRACK_DURATION

\* C7: a colon-delimited raw duration with at least one segment that is not
\* an integer (an empty segment included) gives the default 180.
C7_BadSegmentDefault ==
  (ppc = "returned" /\ raw # Absent)
    => LET segs == split(raw)
       IN  (Len(segs) >= 2 /\ \E k \in 1..Len(segs) : ~IsIntegerSegment(segs[k]))
             => parsed = DEFAULT_TRACK_DURATION

\* C8: the default 180 is returned for an absent or empty raw duration, for
\* one without any numeric segment and for one with more than three segments.
C8_DefaultCases ==
  (ppc = "returned")
    => ((\/ raw = Absent
         \/ raw = <<>>
         \/ \A k \in 1..Len(split(raw)) : ~IsIntegerSegment(split(raw)[k])
         \/ Len(split(raw)) > 3)
          => parsed = DEFAULT_TRACK_DURATION)

\* C9: in a live run the submission call is made exactly once per track, in
\* track order, whichever calls fail; each failure is reported with the track
\* title, is not retried and does not stop the later submissions.
C9_OneCallPerTrack ==
  ~dryRun
    => /\ Len(calls) = (IF pc \in {"post", "delay"} THEN i + 1 ELSE i)
       /\ Len(calls) <= Len(tracks)
       /\ \A k \in 1..Len(calls) : calls[k].track = tracks[k].title
       /\ Len(outcomes) = (IF pc = "post" THEN Len(calls) - 1 ELSE Len(calls))
       /\ errors = FailedTitles(calls, outcomes)
       /\ (pc = "done" => Len(calls) = Len(tracks))

\* A finished live run over three tracks in which only the second call failed.
C9_Witness ==
  /\ pc = "done"
  /\ ~dryRun
  /\ Len(tracks) = 3
  /\ outcomes = <<"ok", "error", "ok">>
  /\ errors = <<tracks[2].title>>
  /\ Len(calls) = 3

\* C10: a dry run makes no submission call, and the timestamp and duration
\* of every track are those of a live run over the same list with the same
\* now: in both they are a function of the list and now alone.
C10_DryRunSameSchedule ==
  /\ dryRun => (calls = <<>> /\ outcomes = <<>>)
  /\ \A k \in 1..Len(assigned) :
       assigned[k]
         = [timestamp |-> now - (TotalDuration(tracks) - SubmittedSum(tracks, k - 1)),
            duration  |-> ScrobbleDuration(tracks[k])]

\* A finished dry run over three tracks without any submission call.
C10_Witness ==
  /\ pc = "done"
  /\ dryRun
  /\ Len(assigned) = 3
  /\ calls = <<>>


\* The names in S in sorting order, each followed by its value.
RECURSIVE SortedPairs(_, _, _)
SortedPairs(order, S, params) ==
  IF order = <<>> THEN <<>>
  ELSE (IF order[1] \in S THEN <<order[1], params[order[1]]>> ELSE <<>>)
       \o SortedPairs(Tail(order), S, params)

\* C11: for each of the three signed calls the hashed string is, for every
\* parameter sent with the call other than api_sig, in sorted name order,
\* the name followed by its value, and then the shared secret.
C11_AllSentParamsSigned ==
  (spc = "signed")
    => sigBase = Append(SortedPairs(NameOrder, DOMAIN sigParams, sigParams), sigSecret)


\* The message kind m has been printed.
Printed(m) == \E k \in 1..Len(printed) : printed[k] = m

\* C12: at most one submission is in flight, and a submission starts only
\* from the loop head, after the previous one has completed and the
\* inter-submission delay has elapsed.
C12_Sequential ==
  /\ [](Len(calls) - Len(outcomes) \in {0, 1})
  /\ [][ /\ (Len(calls') > Len(calls))
              => (pc = "loop" /\ Len(outcomes) = Len(calls))
         /\ (~dryRun /\ pc' = "loop" /\ pc \notin {"loop", "start"})
              => pc = "delay"
         /\ (pc' = "delay")
              => (pc = "post" /\ Len(outcomes') = Len(calls')) ]_vars

\* The second submission is in flight after the first has completed.
C12_Witness ==
  /\ pc = "post"
  /\ Len(calls) = 2
  /\ Len(outcomes) = 1

\* C13: when the release fetch or the authentication fails the process has
\* exited with code 1, no submission has been made and no record appended.
C13_FatalExit ==
  (Printed("discogs error") \/ Printed("auth failed"))
    => /\ exited = <<1>>
       /\ mpc = "exit"
       /\ calls = <<>>
       /\ logged = <<>>
       /\ logFile \in InitialLogFiles

\* The authentication has failed for a release with tracks.
C13_Witness ==
  /\ mpc = "exit"
  /\ Printed("auth failed")
  /\ Len(tracks) > 0
  /\ exited = <<1>>

\* C14: a failure inside logScrobbleSession is reported and the run completes
\* normally: no fatal error, no non-zero exit, the success report is
\* produced and the submissions made are unaffected.
C14_LogFailureNotFatal ==
  (logged = <<"error">>)
    => /\ Printed("log error")
       /\ ~Printed("fatal")
       /\ exited # <<1>>
       /\ mpc \in {"report", "end"}
       /\ (mpc = "end" => (Printed("success") /\ exited = <<0>>))
       /\ Len(calls) = Len(tracks)
       /\ Len(outcomes) = Len(tracks)

\* A run over a corrupt log file has ended with the success report.
C14_Witness ==
  /\ mpc = "end"
  /\ logged = <<"error">>
  /\ logFile.kind = "corrupt"
  /\ Printed("success")
  /\ Len(calls) > 0

\* C15: for an empty track list scrobble ends without error, assigns no
\* timestamp and makes no submission call.
C15_EmptyList ==
  (tracks = <<>> /\ mpc = "scrobble")
    => /\ assigned = <<>>
       /\ calls = <<>>
       /\ errors = <<>>
       /\ i = 0
       /\ pc \in {"start", "loop", "done"}

\* scrobble has returned for an empty track list.
C15_Witness ==
  /\ pc = "done"
  /\ tracks = <<>>
  /\ assigned = <<>>
  /\ calls = <<>>

\* C16: every duration sent with a track.scrobble call is
\* max(parseDuration(raw), 30), hence at least 30; parseDuration itself
\* applies no floor.
C16_SentDurationFloored ==
  \A k \in 1..Len(calls) :
    /\ calls[k].duration
         = Max(parseDuration(tracks[k].duration), MIN_SCROBBLE_DURATION)
    /\ calls[k].duration >= MIN_SCROBBLE_DURATION

\* A call has been sent with duration 30 for a track that parses to 0, and
\* another for a track that parses to 10.
C16_Witness ==
  /\ \E k \in 1..Len(calls) :
       parseDuration(tracks[k].duration) = 0 /\ calls[k].duration = 30
  /\ \E k \in 1..Len(calls) :
       parseDuration(tracks[k].duration) = 10 /\ calls[k].duration = 30

\* C17: the timestamps of consecutive tracks differ by exactly the duration
\* submitted for the earlier of the two, in dry and live runs.
C17_ConsecutiveGap ==
  \A k \in 1..(Len(assigned) - 1) :
    assigned[k + 1].timestamp - assigned[k].timestamp = assigned[k].duration

\* A finished live run over three tracks, the first below the minimum.
C17_Witness ==
  /\ pc = "done"
  /\ ~dryRun
  /\ Len(assigned) = 3
  /\ parseDuration(tracks[1].duration) < MIN_SCROBBLE_DURATION
  /\ assigned[2].timestamp - assigned[1].timestamp = MIN_SCROBBLE_DURATION

\* C18 (as claimed): a live run that reaches the scrobbling step has appended
\* exactly one session record when it ends.
C18_ExactlyOneRecord ==
  (mpc = "end" /\ ~dryRun /\ pc = "done") => logged = <<"ok">>

\* C18 (amended): a live run that reaches the scrobbling step calls
\* logScrobbleSession exactly once, after the submission attempt of the last
\* track has completed; that call appends exactly one record, or none when
\* it fails; nothing is appended before or between the submissions.
C18_OneLogAfterLastTrack ==
  /\ Len(logged) <= 1
  /\ (logged # <<>>)
       => (~dryRun /\ pc = "done" /\ Len(calls) = Len(tracks)
           /\ Len(outcomes) = Len(tracks))
  /\ (mpc \in {"report", "end"} /\ ~dryRun /\ pc = "done") => Len(logged) = 1
  /\ (logged = <<"ok">>)
       => (logFile.kind = "array"
           /\ logFile.data[Len(logFile.data)] = LogEntry(tracks)
           /\ Len(logFile.data) \in {1, 2})
  /\ (logged # <<"ok">>) => logFile \in InitialLogFiles

\* A live run over two tracks has appended its record after an earlier one.
C18_Witness ==
  /\ mpc = "end"
  /\ ~dryRun
  /\ Len(tracks) = 2
  /\ logged = <<"ok">>
  /\ Len(logFile.data) = 2

\* C19: timestamp and duration of a track do not depend on the outcome of
\* any submission: now and the total are fixed before the loop and the
\* cumulative time advances after a failure exactly as after a success.
C19_OutcomeIndependent ==
  (~dryRun /\ pc \notin {"idle", "start"})
    => /\ totalDuration = TotalDuration(tracks)
       /\ cumulativeTime = SubmittedSum(tracks, Len(outcomes))
       /\ \A k \in 1..Len(assigned) :
            /\ assigned[k].timestamp
                 = now - (totalDuration - SubmittedSum(tracks, k - 1))
            /\ assigned[k].duration = ScrobbleDuration(tracks[k])

\* A finished live run in which the first and the last call failed.
C19_Witness ==
  /\ pc = "done"
  /\ ~dryRun
  /\ outcomes = <<"error", "ok", "error">>
  /\ Len(assigned) = 3

\* C20: after an answer other than y or Y the run ends without an
\* authentication request, a submission or a log append; authentication is
\* requested only after a confirming answer and a submission is made only
\* after authentication returned a session key.
C20_ConfirmGates ==
  /\ (authRequests > 0) => answer \in {"y", "Y"}
  /\ (calls # <<>>) => (sessionKey # "" /\ authRequests > 0)
  /\ (answer \notin {"y", "Y"})
       => (authRequests = 0 /\ sessionKey = "" /\ calls = <<>> /\ logged = <<>>
           /\ pc = "idle")
  /\ Printed("cancelled") => (mpc = "end" /\ exited = <<0>>)
  /\ (mpc \notin {"start", "fetch", "artist", "confirm", "exit"}
      /\ ~Printed("fatal") /\ answer \notin {"y", "Y"})
       => Printed("cancelled")

\* The prompt was answered "yes" for a release with tracks: cancelled.
C20_Witness ==
  /\ mpc = "end"
  /\ answer = "yes"
  /\ Printed("cancelled")
  /\ Len(tracks) > 0
  /\ authRequests = 0


\* C21: the log is append-only: a successful logScrobbleSession leaves every
\* earlier record in place, in order, followed by the new record; when the
\* file cannot be read or parsed, or the write fails, the stored content is
\* left unchanged.
C21_AppendOnly ==
  [][ (logged' # logged)
        => IF logged'[Len(logged')] = "ok"
           THEN /\ logFile'.kind = "array"
                /\ logFile'.data = Append(logFile.data, LogEntry(tracks))
           ELSE logFile' = logFile ]_vars

====
